---- MODULE Spec2Model ----
(***************************************************************************)
(* The example-manifest pipeline of upjet: ExampleGenerator.Generate,      *)
(* transformFields, StoreExamples and the recursive reference resolver.    *)
(*                                                                         *)
(* Values.  A Go string is a sequence of tokens; the tokens "$", "{", "}", *)
(* ".", "_", "-", "/" are the punctuation the code inspects, every other   *)
(* token is a run of characters none of the code's patterns look into.     *)
(* An interface{} tree is a tagged node: a string, a                       *)
(* map[string]interface{}, a []interface{}, a map[string]string or any     *)
(* other scalar (a number).  Map keys are single tokens.                   *)
(*                                                                         *)
(* Notation.  \E x \in {e} : ... names the value of e once, as a Go        *)
(* short variable declaration does (v := params[k]).                       *)
(***************************************************************************)
EXTENDS Integers, Sequences, FiniteSets, TLC

\* ------------------------------------------------------------ bounds
\* StoreExamples calls made on one generator.
MaxCalls == 2
\* Frames of resolveReferences that may be live at once (the call stack).
MaxDepth == 12

\* ------------------------------------------------------------ tree values
StringNode(s) == [kind |-> "string", s |-> s, m |-> <<>>, e |-> <<>>]
MapNode(m) == [kind |-> "map", s |-> <<>>, m |-> m, e |-> <<>>]
SliceNode(e) == [kind |-> "slice", s |-> <<>>, m |-> <<>>, e |-> e]
StringMapNode(m) == [kind |-> "map[string]string", s |-> <<>>, m |-> m, e |-> <<>>]
NullNode == [kind |-> "null", s |-> <<>>, m |-> <<>>, e |-> <<>>]
NumberNode == [kind |-> "number", s |-> <<>>, m |-> <<>>, e |-> <<>>]

\* f with key k removed (Go's delete(f, k); a no-op when k is absent).
Delete(f, k) == [x \in (DOMAIN f) \ {k} |-> f[x]]
\* f with f[k] = v (Go's f[k] = v, inserting or overwriting).
Put(f, k, v) == [x \in (DOMAIN f) \cup {k} |-> IF x = k THEN v ELSE f[x]]

\* ------------------------------------------------------------ strings
\* strings.Split(s, sep) for a one-token separator: the segments between
\* the separators, in order (always at least one segment).  With the
\* separators at positions p1 < ... < pc, segment j runs from just after
\* p(j-1) to just before pj (p0 = 0, p(c+1) = Len(s) + 1).
Split(s, sep) ==
  LET seps == {i \in 1..Len(s) : s[i] = sep}
      edge(j) == IF j = 0 THEN 0
                ELSE IF j > Cardinality(seps) THEN Len(s) + 1
                ELSE CHOOSE p \in seps : Cardinality({q \in seps : q <= p}) = j
  IN [j \in 1..(Cardinality(seps) + 1) |-> SubSeq(s, edge(j - 1) + 1, edge(j) - 1)]

\* strings.Join(parts, sep).
RECURSIVE Join(_, _)
Join(parts, sep) ==
  IF parts = <<>> THEN <<>>
  ELSE IF Len(parts) = 1 THEN parts[1]
  ELSE parts[1] \o <<sep>> \o Join(Tail(parts), sep)

\* reRef.FindStringSubmatch(s) for reRef = \${(.+)} : the pattern is not
\* anchored, so the match starts at the leftmost "${" that has a "}" at
\* least one character later, and the greedy (.+) runs to the last "}".
\* The result is <<whole match, capture>>, or <<>> when nothing matches.
reRefStarts(s) ==
  {i \in 1..Len(s) : /\ i + 3 <= Len(s)
                     /\ s[i] = "$"
                     /\ s[i + 1] = "{"
                     /\ \E j \in (i + 3)..Len(s) : s[j] = "}"}

reRefFindStringSubmatch(s) ==
  LET matches ==
        {<<SubSeq(s, i, j), SubSeq(s, i + 2, j - 1)>> :
           i \in {x \in reRefStarts(s) : \A y \in reRefStarts(s) : x <= y},
           j \in {x \in 1..Len(s) : s[x] = "}" /\ \A y \in (x + 1)..Len(s) : s[y] # "}"}}
  IN IF matches = {} THEN <<>> ELSE CHOOSE g \in matches : TRUE

\* ------------------------------------------------------------ fieldpath
\* Paved.GetString(path) of crossplane-runtime, for a path given as its
\* dot-separated segments: every segment but the last must address a
\* map[string]interface{} ("not an object" otherwise), a missing key is
\* the not-found error, and the value found must be a string.
\* A segment names a key only when it is a single token.
RECURSIVE GetString(_, _)
GetString(node, segs) ==
  IF node.kind # "map" THEN [err |-> "other", s |-> <<>>]
  ELSE IF Len(segs[1]) # 1 \/ segs[1][1] \notin DOMAIN node.m
    THEN [err |-> "notFound", s |-> <<>>]
  ELSE LET v == node.m[segs[1][1]]
       IN IF Len(segs) > 1 THEN GetString(v, Tail(segs))
          ELSE IF v.kind = "string" THEN [err |-> "nil", s |-> v.s]
          ELSE [err |-> "other", s |-> <<>>]

\* ------------------------------------------------------------ transformer
\* getHierarchicalName(prefix, name): the dotted path of key name under
\* prefix; the empty prefix gives the bare name.
getHierarchicalName(prefix, name) ==
  IF prefix = <<>> THEN <<name>> ELSE prefix \o <<".", name>>

\* The reference object as it is, whatever it replaces.
getRefFieldBare(v, ref) == ref

\* getRefField(v, ref): the reference object, wrapped in a one-element
\* slice when the value it replaces was a slice.
getRefField(v, ref) ==
  IF v.kind = "slice" THEN SliceNode(<<ref>>) ELSE ref

Quote == "\""

\* reFile.FindStringSubmatch(s) for reFile = file\("(.+)"\) : unanchored,
\* leftmost start, the greedy capture runs to the last `")`.
reFileStarts(s) ==
  {i \in 1..Len(s) : /\ i + 5 <= Len(s)
                     /\ s[i] = "file" /\ s[i + 1] = "(" /\ s[i + 2] = Quote
                     /\ \E j \in (i + 4)..(Len(s) - 1) :
                          s[j] = Quote /\ s[j + 1] = ")"}

reFileFindStringSubmatch(s) ==
  IF reFileStarts(s) = {} THEN <<>>
  ELSE LET i == CHOOSE x \in reFileStarts(s) : \A y \in reFileStarts(s) : x <= y
           ends == {x \in (i + 4)..(Len(s) - 1) : s[x] = Quote /\ s[x + 1] = ")"}
           j == CHOOSE x \in ends : \A y \in ends : y <= x
       IN <<SubSeq(s, i, j + 1), SubSeq(s, i + 3, j - 1)>>

\* The second result of filepath.Split: what follows the last "/".
filepathSplitFile(p) ==
  LET parts == Split(p, "/") IN parts[Len(parts)]

\* getSecretRef(v): <<secretName, secretKey>> for a sensitive field.
getSecretRef(v) ==
  LET secretName == <<"example", "-", "secret">>
      secretKey == <<"example", "-", "key">>
      g == reRefFindStringSubmatch(v.s)
      f == reFileFindStringSubmatch(g[2])
      parts == Split(g[2], ".")
  IN IF v.kind # "string" THEN <<secretName, secretKey>>
     ELSE IF Len(g) # 2 THEN <<secretName, secretKey>>
     ELSE IF Len(f) = 2
       THEN <<secretName, <<"attribute", ".">> \o filepathSplitFile(f[2])>>
     ELSE IF Len(parts) < 3 THEN <<secretName, secretKey>>
     ELSE << <<"example", "-">> \o Join(Tail(Split(parts[1], "_")), "-"),
             <<"attribute", ".">> \o Join(SubSeq(parts, 3, Len(parts)), ".") >>

\* No omission loop: every key stays.
omitFieldsNot(params, omittedFields, namePrefix) == params

\* Lines 176-183: for each omitted path in slice order, delete the one key
\* of params whose hierarchical name equals it.
RECURSIVE omitFields(_, _, _)
omitFields(params, omittedFields, namePrefix) ==
  IF omittedFields = <<>> THEN params
  ELSE LET hn == Head(omittedFields)
           hit == {n \in DOMAIN params : hn = getHierarchicalName(namePrefix, n)}
       IN omitFields(IF hit = {} THEN params ELSE Delete(params, CHOOSE n \in hit : TRUE),
                     Tail(omittedFields), namePrefix)

\* Lines 202-224, one rule: the key whose hierarchical name equals the
\* rule's path is deleted and its value (or the reference object built
\* from it) is stored under TransformedName.  rule.hn is the map key of t.
applyTransformation(params, rule, namePrefix) ==
  LET hit == {n \in DOMAIN params : rule.hn = getHierarchicalName(namePrefix, n)}
  IN IF hit = {} THEN params
     ELSE LET n == CHOOSE x \in hit : TRUE
              v == params[n]
              sr == getSecretRef(v)
              nv == IF rule.IsRef
                      THEN IF ~rule.IsSensitive
                        THEN getRefField(v, MapNode([x \in {"name"} |->
                                            StringNode(<<"example">>)]))
                        ELSE getRefField(v, MapNode([x \in {"name", "namespace", "key"} |->
                               CASE x = "name" -> StringNode(sr[1])
                                 [] x = "namespace" ->
                                      StringNode(<<"crossplane", "-", "system">>)
                                 [] x = "key" -> StringNode(sr[2])]))
                      ELSE v
          IN Put(Delete(params, n), rule.TransformedName, nv)

\* The rule loop left after its first iteration.
applyTransformationsFirstOnly(params, order, namePrefix) ==
  IF order = <<>> THEN params ELSE applyTransformation(params, Head(order), namePrefix)

\* The rule pass for one iteration order of the map t.
RECURSIVE applyTransformations(_, _, _)
applyTransformations(params, order, namePrefix) ==
  IF order = <<>> THEN params
  ELSE applyTransformations(applyTransformation(params, Head(order), namePrefix),
                            Tail(order), namePrefix)

\* Every order in which `range t` may visit the rules of t.
Orders(t) ==
  {o \in [1..Cardinality(t) -> t] : \A i, j \in 1..Cardinality(t) : o[i] = o[j] => i = j}

\* transformFields(params, omittedFields, t, namePrefix): the set of
\* trees the call may leave in params; Go's map iteration order is the
\* only source of choice.  t is a set of rules [hn, TransformedName,
\* IsRef, IsSensitive] with distinct hn.
\* (subs and children name the results of the calls on the elements and
\* on the children once, as tables: f @@ <<>> is f.)
RECURSIVE transformFields(_, _, _, _)

\* The rule loop run before the loop over the children: the children of a
\* renamed field are visited under its new name.
transformFieldsRulesFirst(params, omittedFields, t, namePrefix) ==
  LET kept == omitFields(params, omittedFields, namePrefix)
      sub(name, v) ==
        IF v.kind = "map"
          THEN {MapNode(r) : r \in transformFields(v.m, omittedFields, t,
                                     getHierarchicalName(namePrefix, name))}
        ELSE {v}
      elems(name, v) ==
        {es \in [1..Len(v.e) -> UNION {sub(name, v.e[i]) : i \in 1..Len(v.e)}] :
            \A i \in 1..Len(v.e) : es[i] \in sub(name, v.e[i])}
      child(p, name) ==
        IF p[name].kind = "slice" THEN {SliceNode(es) : es \in elems(name, p[name])}
        ELSE sub(name, p[name])
      walked(p) == {w \in [DOMAIN p -> UNION {child(p, name) : name \in DOMAIN p}] :
                      \A name \in DOMAIN p : w[name] \in child(p, name)}
  IN UNION {walked(applyTransformations(kept, o, namePrefix)) : o \in Orders(t)}

transformFields(params, omittedFields, t, namePrefix) ==
  LET kept == omitFields(params, omittedFields, namePrefix)
      sub(n, v) ==
        IF v.kind = "map"
          THEN {MapNode(r) : r \in transformFields(v.m, omittedFields, t,
                                     getHierarchicalName(namePrefix, n))}
        ELSE {v}
      elems(n, v) ==
        UNION {{es \in [1..Len(v.e) -> UNION {subs[i] : i \in 1..Len(v.e)}] :
                  \A i \in 1..Len(v.e) : es[i] \in subs[i]} :
               subs \in {[i \in 1..Len(v.e) |-> sub(n, v.e[i])] @@ <<>>}}
      child(n) ==
        IF kept[n].kind = "slice" THEN {SliceNode(es) : es \in elems(n, kept[n])}
        ELSE sub(n, kept[n])
      walked ==
        UNION {{p \in [DOMAIN kept -> UNION {children[n] : n \in DOMAIN kept}] :
                  \A n \in DOMAIN kept : p[n] \in children[n]} :
               children \in {[n \in DOMAIN kept |-> child(n)] @@ <<>>}}
  IN {applyTransformations(p, o, namePrefix) : p \in walked, o \in Orders(t)}

\* ------------------------------------------------------------ inputs
\* The provider configuration handed to the generator: three resources.
\* A placeholder may also name "u", which is no resource.
ResourceNames == {"a", "b", "c"}

group == <<"ec2", ".", "aws", ".", "upbound", ".", "io">>
version == <<"v1beta1">>

Kind(r) == CASE r = "a" -> "Vpc" [] r = "b" -> "Subnet" [] r = "c" -> "Route"

\* strings.ToLower on one token.
ToLower(tok) ==
  CASE tok = "Vpc" -> "vpc" [] tok = "Subnet" -> "subnet" [] tok = "Route" -> "route"
    [] OTHER -> tok

\* rm.ExternalName of the resource's metadata (empty for a and c).
ExternalName(r) == IF r = "b" THEN <<"subnet", "-", "1">> ELSE <<>>

\* r.ExternalName.OmittedFields.
OmittedFields(r) == IF r = "a" THEN << <<"o">> >> ELSE <<>>

\* The fieldTransformations argument of Generate.
fieldTransformations(r) ==
  CASE r = "a" -> {[hn |-> <<"o">>, TransformedName |-> "p",
                    IsRef |-> FALSE, IsSensitive |-> FALSE]}
    [] r = "b" -> {[hn |-> <<"r">>, TransformedName |-> "f",
                    IsRef |-> FALSE, IsSensitive |-> FALSE]}
    [] r = "c" -> {[hn |-> <<"s">>, TransformedName |-> "sRef",
                    IsRef |-> TRUE, IsSensitive |-> FALSE]}
    [] OTHER -> {}

\* The placeholder ${x.n.<p>}.
Ref(x, p) == <<"$", "{", x, ".", "n", ".">> \o p \o <<"}">>

NoExample == [kind |-> "none", s |-> <<>>, m |-> <<>>, e |-> <<>>]

\* rm.Examples[0].Paved of each resource: the raw example parameters the
\* run may be given (NoExample: the resource has no example).
Examples(r) ==
  CASE r = "a" ->
         { \* a reference to b
           ("f" :> StringNode(Ref("b", <<"f">>))) @@ ("o" :> StringNode(<<"x">>)),
           \* a reference to a field of a itself, next to a reference to b
           ("f" :> StringNode(Ref("a", <<"g">>))) @@ ("g" :> StringNode(Ref("b", <<"f">>))),
           \* placeholders under a nested map and inside a slice
           ("m" :> MapNode("g" :> StringNode(Ref("b", <<"f">>))))
             @@ ("l" :> SliceNode(<<MapNode("g" :> StringNode(Ref("b", <<"f">>))),
                                    StringNode(Ref("b", <<"f">>))>>)),
           \* text around the placeholder
           ("f" :> StringNode(<<"p">> \o Ref("b", <<"f">>) \o <<"s">>)),
           \* two placeholders in one string
           ("f" :> StringNode(Ref("b", <<"f">>) \o Ref("c", <<"f">>))),
           \* no such resource, no such field, too few segments
           ("f" :> StringNode(Ref("u", <<"f">>))),
           ("f" :> StringNode(Ref("b", <<"z">>))),
           ("f" :> StringNode(<<"$", "{", "b", ".", "n", "}">>)),
           \* the bookkeeping field of b, and a path below b's field f
           ("f" :> StringNode(Ref("b", <<"depends_on">>))),
           ("f" :> StringNode(Ref("b", <<"f", ".", "g">>))) }
    [] r = "b" ->
         { ("r" :> StringNode(<<"v">>)),
           ("f" :> NumberNode),
           ("f" :> MapNode("g" :> StringNode(<<"w">>))),
           ("f" :> StringNode(Ref("c", <<"f">>))),
           ("f" :> StringNode(Ref("a", <<"f">>))),
           ("f" :> StringNode(Ref("c", <<"f">>))) @@ ("g" :> StringNode(Ref("c", <<"g">>))),
           ("f" :> StringNode(<<"w">>)) @@ ("depends_on" :> StringNode(Ref("c", <<"f">>))),
           ("f" :> StringNode(<<"w">>))
             @@ ("depends_on" :> SliceNode(<<StringNode(Ref("c", <<"f">>))>>)) }
    [] r = "c" ->
         { ("f" :> StringNode(<<"v">>)) @@ ("s" :> StringNode(<<"x">>)),
           ("f" :> StringNode(Ref("a", <<"f">>))),
           ("f" :> StringNode(<<"v">>)) @@ ("g" :> NumberNode) }

\* ------------------------------------------------------------ state
VARIABLES
  pending,     \* Run: the resources whose Generate call is still to come
  resources,   \* eg.resources: name -> [manifestPath, paved, refsResolved]
  files,       \* the file system: manifestPath -> the manifest written there
  pc,          \* "Run", "idle", "range" (in StoreExamples' loop), "resolve"
  todo,        \* StoreExamples: the resources its range loop has yet to visit
  n,           \* StoreExamples: the loop variable n
  stack,       \* live resolveReferences calls, innermost last
  ret,         \* the value the last returned call handed its caller
  result,      \* what the last StoreExamples call returned
  calls,       \* StoreExamples calls made so far
  \* history variables (not program state)
  registered,  \* name -> the tree Generate registered
  walks,       \* name -> how often resolveReferences was started on its tree
  cut,         \* resources whose resolution an error cut short
  wrote,       \* resources the current StoreExamples call has written
  failedAt,    \* the positions of the strings whose lookup returned an error
  history,     \* one record per returned StoreExamples call
  \* a transformer function called on its own
  invoked,     \* the function and the arguments of the last such call
  returned     \* what that call returned (for transformFields: left in params)

vars == <<pending, resources, files, pc, todo, n, stack, ret, result, calls,
          registered, walks, cut, wrote, failedAt, history, invoked, returned>>

\* No transformer function has been called on its own.
NotInvoked == [fn |-> "none"]

\* NewExampleGenerator: no resource registered, nothing written.
Init ==
  /\ pending = ResourceNames
  /\ resources = <<>>
  /\ files = <<>>
  /\ pc = "Run"
  /\ todo = {}
  /\ n = ""
  /\ stack = <<>>
  /\ ret = "none"
  /\ result = "none"
  /\ calls = 0
  /\ registered = <<>>
  /\ walks = <<>>
  /\ cut = {}
  /\ wrote = {}
  /\ failedAt = {}
  /\ history = <<>>
  /\ invoked = NotInvoked
  /\ returned = NotInvoked

\* ------------------------------------------------------------ Generate
\* filepath.Join(rootDir, "examples-generated", lower(first segment of
\* group), lower(kind) + ".yaml"), relative to rootDir.
manifestPath(grp, kind) ==
  <<"examples-generated", "/">> \o [i \in 1..Len(Split(grp, ".")[1]) |->
                                      ToLower(Split(grp, ".")[1][i])]
     \o <<"/", ToLower(kind), ".yaml">>

\* The manifest Generate builds around the transformed parameters.
example(r, exampleParams) ==
  LET metadata ==
        IF Len(ExternalName(r)) # 0
          THEN ("name" :> StringNode(<<"example">>))
                 @@ ("annotations" :> StringMapNode(
                        "crossplane.io/external-name" :> StringNode(ExternalName(r))))
          ELSE ("name" :> StringNode(<<"example">>))
  IN MapNode(("apiVersion" :> StringNode(group \o <<"/">> \o version))
               @@ ("kind" :> StringNode(<<Kind(r)>>))
               @@ ("metadata" :> MapNode(metadata))
               @@ ("spec" :> MapNode("forProvider" :> MapNode(exampleParams))))

\* Generate(group, version, r, fieldTransformations), called by Run once
\* per resource: nothing is registered for a resource without an example.
Generate(r) ==
  /\ pc = "Run"
  /\ r \in pending
  /\ pending' = pending \ {r}
  /\ \E ex \in Examples(r) \cup (IF r = "c" THEN {NoExample} ELSE {}) :
       IF ex = NoExample
         THEN UNCHANGED <<resources, registered, walks>>
         ELSE \E exampleParams \in
                  transformFields(ex, OmittedFields(r), fieldTransformations(r), <<>>) :
                /\ resources' = Put(resources, r,
                                    [manifestPath |-> manifestPath(group, Kind(r)),
                                     paved |-> example(r, exampleParams),
                                     refsResolved |-> FALSE])
                /\ registered' = Put(registered, r, example(r, exampleParams))
                /\ walks' = Put(walks, r, 0)
  /\ pc' = IF pending' = {} THEN "idle" ELSE "Run"
  /\ UNCHANGED <<files, todo, n, stack, ret, result, calls, cut, wrote, failedAt, history,
                 invoked, returned>>

\* ------------------------------------------------------------ resolver
\* A live resolveReferences(params) call: params is the map at `path` in
\* the tree of resource `res` (a path step is a key and, for an element
\* of a slice, its index; 0 for the value itself), todo the keys the range
\* loop has yet to visit, and k the key whose value the call is inside
\* ("" between iterations), i the slice element it is inside.
RECURSIVE NodeAt(_, _)
NodeAt(node, path) ==
  IF path = <<>> THEN node
  ELSE LET v == node.m[Head(path).k]
       IN NodeAt(IF Head(path).i = 0 THEN v ELSE v.e[Head(path).i], Tail(path))

\* The tree with key k of the map at path set to v (params[k] = v).
\* The assignment made in the top map of the document, not in params.
AssignAtTop(node, path, k, v) == MapNode(Put(node.m, k, v))

RECURSIVE AssignAt(_, _, _, _)
AssignAt(node, path, k, v) ==
  IF path = <<>> THEN MapNode([node.m EXCEPT ![k] = v])
  ELSE LET c == node.m[Head(path).k]
       IN MapNode([node.m EXCEPT ![Head(path).k] =
            IF Head(path).i = 0 THEN AssignAt(c, Tail(path), k, v)
            ELSE SliceNode([c.e EXCEPT ![Head(path).i] =
                               AssignAt(c.e[Head(path).i], Tail(path), k, v)])])


\* Lines 105-117: the resource a string refers to, or "" when the loop
\* moves on: reRef does not match, the capture has fewer than three
\* dot-separated segments, or segment 0 is no registered resource.
refTarget(t) ==
  LET paths == {Split(g[2], ".") : g \in {x \in {reRefFindStringSubmatch(t)} : Len(x) = 2}}
      pms == {path[1][1] : path \in {x \in paths : /\ Len(x) >= 3
                                                    /\ Len(x[1]) = 1
                                                    /\ x[1][1] \in DOMAIN resources}}
  IN IF pms = {} THEN "" ELSE CHOOSE pm \in pms : TRUE

\* Line 121: the segments of pathStr, spec.forProvider.<path[2:]>.
pathStr(t) ==
  LET paths == {Split(g[2], ".") : g \in {reRefFindStringSubmatch(t)}}
  IN CHOOSE segs \in {<< <<"spec">>, <<"forProvider">> >> \o SubSeq(path, 3, Len(path)) :
                        path \in paths} : TRUE

\* rangeKeys without the []interface{} case: slices are passed over.
rangeKeysNoSlice(m) ==
  {k \in DOMAIN m : \E v \in {m[k]} :
                      \/ v.kind = "map"
                      \/ v.kind = "string" /\ refTarget(v.s) # ""}

\* The keys at which an iteration of `for k, v := range params` does
\* anything: v is a map, a slice, or a string that refers to a registered
\* resource.  At every other key the loop continues at once (lines
\* 106-108, 111-113, 115-117, and values the type switch has no case
\* for); those iterations read and write nothing, and the loop passes
\* over them without a step of its own.
rangeKeys(m) ==
  {k \in DOMAIN m : \E v \in {m[k]} :
                      \/ v.kind \in {"map", "slice"}
                      \/ v.kind = "string" /\ refTarget(v.s) # ""}

Frame(res, path) ==
  [res |-> res, path |-> path, k |-> "", i |-> 0,
   todo |-> rangeKeys(NodeAt(resources[res].paved, path).m)]

Top == stack[Len(stack)]
Popped == SubSeq(stack, 1, Len(stack) - 1)
WithTop(fr) == [stack EXCEPT ![Len(stack)] = fr]
params(fr) == NodeAt(resources[fr.res].paved, fr.path).m

\* alreadyResolved without the test of line 78: no resource counts as marked.
alreadyResolvedNever(pm) == FALSE

\* Line 78: resolveReferencesOfPaved returns at once for a marked resource.
alreadyResolved(pm) == pm.refsResolved

\* markResolved without the assignment of line 81.
markResolvedNot(rs, r) == rs

\* Line 81: the mark is set before the tree is walked.
markResolved(rs, r) == [rs EXCEPT ![r].refsResolved = TRUE]

\* IsNotFound without the test of line 123: every lookup error is returned.
IsNotFoundNever(err) == FALSE

\* Line 123: fieldpath.IsNotFound(err).
IsNotFound(err) == err = "notFound"

\* lookup without the assignment of line 129: the looked-up string is
\* dropped and params[k] stays as it was.
lookupNoAssign(fr, k) ==
  \E t \in {params(fr)[k].s} :
  \E pm \in {resources[refTarget(t)].paved} :
  \E got \in {GetString(pm, pathStr(t))} :
     IF IsNotFound(got.err) \/ got.err = "nil"
       THEN /\ stack' = WithTop([fr EXCEPT !.k = ""])
            /\ ret' = "none"
            /\ UNCHANGED <<resources, cut, failedAt>>
     ELSE /\ stack' = Popped
          /\ ret' = "err"
          /\ cut' = cut \cup {stack[x].res : x \in 1..Len(stack)}
          /\ failedAt' = failedAt \cup {[res |-> fr.res, path |-> fr.path, k |-> k, i |-> 0]}
          /\ UNCHANGED resources

\* Lines 121-129, once resolveReferencesOfPaved(pm) has returned nil: the
\* looked-up string replaces params[k]; a field that is not found leaves
\* it alone; any other lookup error is returned.
lookup(fr, k) ==
  \E t \in {params(fr)[k].s} :
  \E pm \in {resources[refTarget(t)].paved} :
  \E pathSegs \in {pathStr(t)} :
  \E got \in {GetString(pm, pathSegs)} :
     IF IsNotFound(got.err)
       THEN /\ stack' = WithTop([fr EXCEPT !.k = ""])
            /\ ret' = "none"
            /\ UNCHANGED <<resources, cut, failedAt>>
     ELSE IF got.err # "nil"
       THEN /\ stack' = Popped
            /\ ret' = "err"
            /\ cut' = cut \cup {stack[x].res : x \in 1..Len(stack)}
            /\ failedAt' = failedAt \cup {[res |-> fr.res, path |-> fr.path, k |-> k, i |-> 0]}
            /\ UNCHANGED resources
     ELSE /\ stack' = WithTop([fr EXCEPT !.k = ""])
          /\ ret' = "none"
          /\ resources' = [resources EXCEPT ![fr.res].paved =
                              AssignAt(@, fr.path, k, StringNode(got.s))]
          /\ UNCHANGED <<cut, failedAt>>

\* No element of a slice is descended into.
mapElemsNone(v, i) == {}

\* The indices after i of the elements of slice v that are maps.
mapElems(v, i) == {x \in (i + 1)..Len(v.e) : v.e[x].kind = "map"}
Min(S) == CHOOSE x \in S : \A y \in S : x <= y

Running == stack # <<>> /\ ret = "none" /\ Top.k = ""
Frozen == <<pending, files, pc, todo, n, result, calls, registered, wrote, history,
            invoked, returned>>

\* Lines 88-91: the next key holds a map; resolveReferences is called on it.
resolveReferencesMap ==
  /\ Running
  /\ Len(stack) < MaxDepth
  /\ \E k \in Top.todo :
       /\ params(Top)[k].kind = "map"
       /\ stack' = Append(WithTop([Top EXCEPT !.todo = @ \ {k}, !.k = k]),
                          Frame(Top.res, Append(Top.path, [k |-> k, i |-> 0])))
  /\ UNCHANGED <<resources, ret, walks, cut, failedAt>>
  /\ UNCHANGED Frozen

\* Lines 93-102: the next key holds a slice; the call descends into its
\* first element that is a map, if there is one.
resolveReferencesSlice ==
  /\ Running
  /\ Len(stack) < MaxDepth
  /\ \E k \in Top.todo :
       LET v == params(Top)[k] IN
       /\ v.kind = "slice"
       /\ IF mapElems(v, 0) = {}
            THEN stack' = WithTop([Top EXCEPT !.todo = @ \ {k}])
            ELSE stack' = Append(
                   WithTop([Top EXCEPT !.todo = @ \ {k}, !.k = k, !.i = Min(mapElems(v, 0))]),
                   Frame(Top.res, Append(Top.path, [k |-> k, i |-> Min(mapElems(v, 0))])))
  /\ UNCHANGED <<resources, ret, walks, cut, failedAt>>
  /\ UNCHANGED Frozen

\* Lines 114-129 with pm already marked: resolveReferencesOfPaved returns
\* nil at once and the field is looked up.
resolveReferencesMemo ==
  /\ Running
  /\ \E k \in Top.todo :
       \E v \in {params(Top)[k]} :
         /\ v.kind = "string"
         /\ \E pm \in {refTarget(v.s)} :
              /\ pm # ""
              /\ alreadyResolved(resources[pm])
         /\ lookup([Top EXCEPT !.todo = @ \ {k}], k)
  /\ UNCHANGED walks
  /\ UNCHANGED Frozen

\* resolveReferencesRecurse without the call of line 118: the field is
\* looked up in pm's tree as it stands, and pm is neither marked nor walked.
resolveReferencesLookupOnly ==
  /\ Running
  /\ \E k \in Top.todo :
       \E v \in {params(Top)[k]} :
         /\ v.kind = "string"
         /\ \E pm \in {refTarget(v.s)} :
              /\ pm # ""
              /\ ~alreadyResolved(resources[pm])
         /\ lookup([Top EXCEPT !.todo = @ \ {k}], k)
  /\ UNCHANGED walks
  /\ UNCHANGED Frozen

\* Lines 118 and 77-82 with pm not marked: pm is marked and
\* resolveReferences starts on its tree.
resolveReferencesRecurse ==
  /\ Running
  /\ Len(stack) < MaxDepth
  /\ \E k \in Top.todo :
       \E v \in {params(Top)[k]} :
       \E pm \in {IF v.kind = "string" THEN refTarget(v.s) ELSE ""} :
       /\ v.kind = "string"
       /\ pm # ""
       /\ ~alreadyResolved(resources[pm])
       /\ resources' = markResolved(resources, pm)
       /\ stack' = Append(WithTop([Top EXCEPT !.todo = @ \ {k}, !.k = k]), Frame(pm, <<>>))
       /\ walks' = [walks EXCEPT ![pm] = @ + 1]
  /\ UNCHANGED <<ret, cut, failedAt>>
  /\ UNCHANGED Frozen

\* Line 132: the range loop is over; the call returns nil.
resolveReferencesReturn ==
  /\ Running
  /\ Top.todo = {}
  /\ stack' = Popped
  /\ ret' = "nil"
  /\ UNCHANGED <<resources, walks, cut, failedAt>>
  /\ UNCHANGED Frozen

\* A call made by the innermost live resolveReferences returned nil: the
\* loop goes on after a map, to the next map element of a slice, or to
\* the lookup after resolveReferencesOfPaved.
resolveReferencesResume ==
  /\ stack # <<>> /\ ret = "nil"
  /\ LET v == params(Top)[Top.k] IN
       CASE v.kind = "map" ->
              /\ stack' = WithTop([Top EXCEPT !.k = ""])
              /\ ret' = "none"
              /\ UNCHANGED <<resources, cut, failedAt>>
         [] v.kind = "slice" ->
              /\ IF mapElems(v, Top.i) = {}
                   THEN stack' = WithTop([Top EXCEPT !.k = "", !.i = 0])
                   ELSE stack' = Append(
                          WithTop([Top EXCEPT !.i = Min(mapElems(v, Top.i))]),
                          Frame(Top.res, Append(Top.path,
                                  [k |-> Top.k, i |-> Min(mapElems(v, Top.i))])))
              /\ ret' = "none"
              /\ UNCHANGED <<resources, cut, failedAt>>
         [] v.kind = "string" -> lookup(Top, Top.k)
  /\ UNCHANGED walks
  /\ UNCHANGED Frozen

\* resolveReferencesFail with the error of the nested call dropped: the
\* caller's loop goes on with its next key.
resolveReferencesFailIgnored ==
  /\ stack # <<>> /\ ret = "err"
  /\ stack' = WithTop([Top EXCEPT !.k = "", !.i = 0])
  /\ ret' = "none"
  /\ UNCHANGED <<resources, walks, cut, failedAt>>
  /\ UNCHANGED Frozen

\* Lines 89-91, 99-101, 118-120: a call returned an error; the caller
\* returns it (wrapped) without doing anything else.
resolveReferencesFail ==
  /\ stack # <<>> /\ ret = "err"
  /\ stack' = Popped
  /\ UNCHANGED <<resources, ret, walks, cut, failedAt>>
  /\ UNCHANGED Frozen

\* ------------------------------------------------------------ StoreExamples
\* yaml.Marshal of the manifest: a manifest file is identified with the
\* tree it was marshalled from.
Marshal(u) == u

\* Line 60 left out: the tree keeps its bookkeeping key.
deleteDependsOnNot(u) == u

\* Lines 59-72 for resource r: the bookkeeping key is deleted from
\* spec.forProvider of the live tree and the tree is written out.
\* (MkdirAll and WriteFile are taken to succeed.)
deleteDependsOn(u) ==
  MapNode([u.m EXCEPT !["spec"] = MapNode([@.m EXCEPT !["forProvider"] =
              MapNode(Delete(@.m, "depends_on"))])])

write(rs, r) ==
  /\ resources' = [rs EXCEPT ![r].paved = deleteDependsOn(@)]
  /\ files' = Put(files, rs[r].manifestPath, Marshal(deleteDependsOn(rs[r].paved)))
  /\ wrote' = wrote \cup {r}

\* StoreExamples called from inside Run's loop over the resources.
StoreExamplesEarly ==
  /\ pc \in {"Run", "idle"}
  /\ calls < MaxCalls
  /\ calls' = calls + 1
  /\ pc' = "range"
  /\ todo' = DOMAIN resources
  /\ result' = "none"
  /\ wrote' = {}
  /\ UNCHANGED <<pending, resources, files, n, stack, ret, registered, walks, cut, failedAt,
                 history, invoked, returned>>

\* Run (or any later caller) calls StoreExamples.
StoreExamples ==
  /\ pc = "idle"
  /\ calls < MaxCalls
  /\ calls' = calls + 1
  /\ pc' = "range"
  /\ todo' = DOMAIN resources
  /\ result' = "none"
  /\ wrote' = {}
  /\ UNCHANGED <<pending, resources, files, n, stack, ret, registered, walks, cut, failedAt,
                 history, invoked, returned>>

\* Lines 55-72, pm already marked: nothing to resolve, pm is written.
StoreExamplesMemo ==
  /\ pc = "range"
  /\ \E r \in todo :
       /\ alreadyResolved(resources[r])
       /\ todo' = todo \ {r}
       /\ n' = r
       /\ write(resources, r)
  /\ UNCHANGED <<pending, pc, stack, ret, result, calls, registered, walks, cut, failedAt,
                 history, invoked, returned>>

\* Lines 55-56 and 77-82, pm not marked: pm is marked and
\* resolveReferences starts on its tree.
StoreExamplesResolve ==
  /\ pc = "range"
  /\ \E r \in todo :
       /\ ~alreadyResolved(resources[r])
       /\ todo' = todo \ {r}
       /\ n' = r
       /\ resources' = markResolved(resources, r)
       /\ stack' = <<Frame(r, <<>>)>>
       /\ walks' = [walks EXCEPT ![r] = @ + 1]
  /\ pc' = "resolve"
  /\ UNCHANGED <<pending, files, ret, result, calls, registered, cut, wrote, failedAt,
                 history, invoked, returned>>

\* Lines 59-72: the references of n are resolved; n is written.
StoreExamplesWrite ==
  /\ pc = "resolve" /\ stack = <<>> /\ ret = "nil"
  /\ write(resources, n)
  /\ ret' = "none"
  /\ pc' = "range"
  /\ UNCHANGED <<pending, todo, n, stack, result, calls, registered, walks, cut, failedAt,
                 history, invoked, returned>>

Snapshot(res, rs, fs) ==
  [result |-> res, paved |-> [r \in DOMAIN rs |-> rs[r].paved], files |-> fs]

\* Lines 56-58: resolving n failed; StoreExamples returns the error.
StoreExamplesFail ==
  /\ pc = "resolve" /\ stack = <<>> /\ ret = "err"
  /\ ret' = "none"
  /\ result' = "err"
  /\ pc' = "idle"
  /\ history' = Append(history, Snapshot("err", resources, files))
  /\ UNCHANGED <<pending, resources, files, todo, n, stack, calls, registered, walks,
                 cut, wrote, failedAt, invoked, returned>>

\* Line 74: every resource was visited; StoreExamples returns nil.
StoreExamplesReturn ==
  /\ pc = "range" /\ todo = {}
  /\ result' = "ok"
  /\ pc' = "idle"
  /\ history' = Append(history, Snapshot("ok", resources, files))
  /\ UNCHANGED <<pending, resources, files, todo, n, stack, ret, calls, registered,
                 walks, cut, wrote, failedAt, invoked, returned>>

Next ==
  \/ \E r \in ResourceNames : Generate(r)
  \/ StoreExamples
  \/ StoreExamplesMemo
  \/ StoreExamplesResolve
  \/ StoreExamplesWrite
  \/ StoreExamplesFail
  \/ StoreExamplesReturn
  \/ resolveReferencesMap
  \/ resolveReferencesSlice
  \/ resolveReferencesMemo
  \/ resolveReferencesRecurse
  \/ resolveReferencesReturn
  \/ resolveReferencesResume
  \/ resolveReferencesFail

Spec == Init /\ [][Next]_vars
\* The steps of a StoreExamples call that is under way.  The generator
\* is single-threaded and synchronous: a call that can take a step does.
Step ==
  \/ StoreExamplesMemo
  \/ StoreExamplesResolve
  \/ StoreExamplesWrite
  \/ StoreExamplesFail
  \/ StoreExamplesReturn
  \/ resolveReferencesMap
  \/ resolveReferencesSlice
  \/ resolveReferencesMemo
  \/ resolveReferencesRecurse
  \/ resolveReferencesReturn
  \/ resolveReferencesResume
  \/ resolveReferencesFail

FairSpec == Spec /\ WF_vars(Step)

\* ------------------------------------------------------------ the transformer alone
\* transformFields and getSecretRef are functions of their arguments: they
\* are also called on their own, once, on arguments drawn from the sets below.
MaxRules == 2

Rule(hn, name, isRef, isSensitive) ==
  [hn |-> hn, TransformedName |-> name, IsRef |-> isRef, IsSensitive |-> isSensitive]

\* Values of sensitive fields: ${aws_db_instance.main.password} and
\* ${file("/k/c.pem")}.
DbPassword ==
  <<"$", "{", "aws", "_", "db", "_", "instance", ".", "main", ".", "password", "}">>
PemFile ==
  <<"$", "{", "file", "(", Quote, "/", "k", "/", "c", ".", "pem", Quote, ")", "}">>

\* The params argument: example parameters with strings, a number, maps
\* and slices at the top and below a field p.
TransformParams ==
  { ("a" :> StringNode(<<"x">>)) @@ ("b" :> StringNode(<<"y">>)),
    ("a" :> StringNode(<<"z">>))
      @@ ("p" :> MapNode(("c" :> StringNode(<<"x">>)) @@ ("d" :> StringNode(<<"y">>)))),
    ("b" :> NumberNode)
      @@ ("p" :> SliceNode(<<MapNode(("c" :> StringNode(<<"x">>))
                                       @@ ("d" :> StringNode(<<"y">>))),
                             MapNode("c" :> StringNode(<<"w">>)),
                             StringNode(<<"e">>)>>)),
    ("a" :> SliceNode(<<StringNode(<<"x">>)>>)) @@ ("b" :> NumberNode)
      @@ ("c" :> MapNode("k" :> StringNode(<<"v">>))),
    ("a" :> StringNode(DbPassword)) @@ ("b" :> StringNode(PemFile)),
    ("a" :> SliceNode(<<StringNode(DbPassword)>>)) @@ ("q" :> StringNode(<<"u">>)),
    ("a" :> NullNode) @@ ("c" :> NullNode) }

\* The omittedFields argument.
TransformOmitted ==
  { <<>>,
    << <<"a">> >>,
    << <<"p", ".", "c">> >>,
    << <<"q", ".", "c">> >>,
    << <<"b">> >>,
    << <<"a">>, <<"c">> >>,
    << <<"p">> >> }

\* The rules the map t is made of.
TransformRules ==
  { Rule(<<"a">>, "aRef", TRUE, FALSE),
    Rule(<<"a">>, "aSecretRef", TRUE, TRUE),
    Rule(<<"a">>, "z", FALSE, FALSE),
    Rule(<<"b">>, "z", FALSE, FALSE),
    Rule(<<"b">>, "a", FALSE, FALSE),
    Rule(<<"b">>, "bSecretRef", TRUE, TRUE),
    Rule(<<"c">>, "cRef", TRUE, FALSE),
    Rule(<<"z">>, "y", FALSE, FALSE),
    Rule(<<"p">>, "q", FALSE, FALSE),
    Rule(<<"p">>, "pRef", TRUE, FALSE),
    Rule(<<"p", ".", "c">>, "e", FALSE, FALSE),
    Rule(<<"p", ".", "c">>, "cRef", TRUE, FALSE),
    Rule(<<"q", ".", "c">>, "e", FALSE, FALSE) }

\* The maps t of at most MaxRules rules: a map has one rule per path.
TransformRuleSets ==
  {t \in SUBSET TransformRules :
     /\ Cardinality(t) <= MaxRules
     /\ \A r1, r2 \in t : r1.hn = r2.hn => r1 = r2}

\* The argument of getSecretRef.
SecretValues ==
  { NumberNode,
    MapNode("k" :> StringNode(DbPassword)),
    SliceNode(<<StringNode(DbPassword)>>),
    StringNode(<<"x">>),
    StringNode(DbPassword),
    StringNode(PemFile),
    StringNode(<<"$", "{", "file", "(", Quote, "c", ".", "pem", Quote, ")", "}">>),
    StringNode(<<"$", "{", "vpc", ".", "main", ".", "id">> \o <<"}">>),
    StringNode(<<"$", "{", "aws", "_", "vpc", ".", "main", ".", "ids", ".", "first", "}">>),
    StringNode(<<"$", "{", "aws", "_", "vpc", ".", "main", "}">>),
    StringNode(<<"$", "{", "aws", "_", "vpc", "}">>),
    StringNode(<<"$", "{", "}">>),
    StringNode(<<"p">> \o DbPassword \o <<"s">>),
    StringNode(<<"$", "{", "aws", "_", "vpc", ".", "file", "(", Quote, "c", Quote, ")",
                 ".", "id", "}">>) }

\* transformFields(exampleParams, omittedFields, t, "") as Generate
\* calls it (line 142).
transformFieldsCall ==
  /\ invoked = NotInvoked
  /\ \E exampleParams \in TransformParams, omittedFields \in TransformOmitted,
        t \in TransformRuleSets :
       /\ invoked' = [fn |-> "transformFields", params |-> exampleParams,
                                omittedFields |-> omittedFields, t |-> t]
       /\ \E out \in transformFields(exampleParams, omittedFields, t, <<>>) :
            returned' = [fn |-> "transformFields", params |-> out]
  /\ UNCHANGED <<pending, resources, files, pc, todo, n, stack, ret, result, calls,
                 registered, walks, cut, wrote, failedAt, history>>

\* getSecretRef(v) as the rule loop calls it (line 213).
getSecretRefCall ==
  /\ invoked = NotInvoked
  /\ \E v \in SecretValues :
       /\ invoked' = [fn |-> "getSecretRef", v |-> v]
       /\ returned' = [fn |-> "getSecretRef", secretName |-> getSecretRef(v)[1],
                                              secretKey |-> getSecretRef(v)[2]]
  /\ UNCHANGED <<pending, resources, files, pc, todo, n, stack, ret, result, calls,
                 registered, walks, cut, wrote, failedAt, history>>

TransformNext ==
  \/ transformFieldsCall
  \/ getSecretRefCall

TransformSpec == Init /\ [][TransformNext]_vars

\* ------------------------------------------------------------ vocabulary
\* The strings of the tree below a map node, each as [path, k, i]: the
\* value of key k of the map at path (i = 0), or element i of the slice
\* that key holds.  resolveReferences inspects the strings with i = 0.
RECURSIVE strings(_, _)
strings(node, path) ==
  UNION {LET v == node.m[k] IN
         CASE v.kind = "string" -> {[path |-> path, k |-> k, i |-> 0]}
           [] v.kind = "map" -> strings(v, Append(path, [k |-> k, i |-> 0]))
           [] v.kind = "slice" ->
                UNION {IF v.e[x].kind = "map"
                         THEN strings(v.e[x], Append(path, [k |-> k, i |-> x]))
                       ELSE IF v.e[x].kind = "string"
                         THEN {[path |-> path, k |-> k, i |-> x]}
                       ELSE {} : x \in 1..Len(v.e)}
           [] OTHER -> {}
         : k \in DOMAIN node.m}

slots(node, path) == {sl \in strings(node, path) : sl.i = 0}

valueAt(tree, sl) ==
  LET v == NodeAt(tree, sl.path).m[sl.k] IN IF sl.i = 0 THEN v ELSE v.e[sl.i]

\* The position lies at or below key depends_on of spec.forProvider.
underDependsOn(sl) ==
  \/ Len(sl.path) = 2 /\ sl.path[1].k = "spec" /\ sl.k = "depends_on"
  \/ Len(sl.path) > 2 /\ sl.path[1].k = "spec" /\ sl.path[3].k = "depends_on"

\* The position still exists in the tree.
present(tree, sl) ==
  underDependsOn(sl) => "depends_on" \in DOMAIN tree.m["spec"].m["forProvider"].m

\* s is ${<inner>} from its first to its last character, one group only.
wholePlaceholder(s) ==
  /\ Len(s) >= 4
  /\ s[1] = "$" /\ s[2] = "{" /\ s[Len(s)] = "}"
  /\ \A x \in 3..(Len(s) - 1) : s[x] \notin {"$", "{", "}"}

\* s holds a ${...} group somewhere.
hasPlaceholder(s) == \E x \in 1..(Len(s) - 1) : s[x] = "$" /\ s[x + 1] = "{"

\* The registered resources the registered tree of r refers to.
refsOf(r) ==
  {refTarget(valueAt(registered[r], sl).s) : sl \in slots(registered[r], <<>>)} \ {""}

reachable(r) ==
  LET one == refsOf(r)
      two == one \cup UNION {refsOf(x) : x \in one}
  IN two \cup UNION {refsOf(x) : x \in two}

\* No resource refers to itself, directly or through other resources.
Acyclic == \A r \in DOMAIN registered : r \notin reachable(r)

\* No placeholder addresses the bookkeeping key StoreExamples deletes.
NoDependsOnRef ==
  \A r \in DOMAIN registered : \A sl \in slots(registered[r], <<>>) :
    LET t == valueAt(registered[r], sl).s
    IN refTarget(t) # "" => pathStr(t)[3] # <<"depends_on">>

\* No StoreExamples call has returned an error.
NeverFailed == \A x \in 1..Len(history) : history[x].result = "ok"

\* A StoreExamples call has returned nil and none has failed.
Stored == pc = "idle" /\ result = "ok" /\ NeverFailed

\* The tree of r with every reference replaced by the string it denotes
\* in the referenced resource's tree, itself so resolved: resolution as a
\* function of the registered documents alone (fuel bounds the descent
\* through references; any acyclic set needs at most one per resource).
RECURSIVE resolvedTree(_, _), substitute(_, _)
substitute(node, fuel) ==
  MapNode([k \in DOMAIN node.m |->
    LET v == node.m[k] IN
    CASE v.kind = "map" -> substitute(v, fuel)
      [] v.kind = "slice" ->
           SliceNode([x \in 1..Len(v.e) |->
              IF v.e[x].kind = "map" THEN substitute(v.e[x], fuel) ELSE v.e[x]])
      [] v.kind = "string" ->
           IF refTarget(v.s) = "" \/ fuel = 0 THEN v
           ELSE LET got == GetString(resolvedTree(refTarget(v.s), fuel - 1), pathStr(v.s))
                IN IF got.err = "nil" THEN StringNode(got.s) ELSE v
      [] OTHER -> v])

resolvedTree(r, fuel) == substitute(registered[r], fuel)

expected(r) == deleteDependsOn(resolvedTree(r, Cardinality(ResourceNames)))

\* ------------------------------------------------------------ one call, as a function
\* StoreExamples as a function of eg.resources and of the order in which
\* `range eg.resources` yields the resources.  st is [rs, err]: the
\* resources and whether an error has been returned (every later step then
\* leaves st alone).  Within a tree the keys are taken in one fixed order.
RECURSIVE resolveReferencesOfPaved(_, _), resolveReferences(_, _, _, _),
          resolveReferencesElems(_, _, _, _, _)
resolveReferencesOfPaved(st, r) ==
  IF st.err \/ alreadyResolved(st.rs[r]) THEN st
  ELSE resolveReferences([st EXCEPT !.rs = markResolved(@, r)], r, <<>>,
                         rangeKeys(st.rs[r].paved.m))

resolveReferences(st, r, path, keys) ==
  IF keys = {} \/ st.err THEN st
  ELSE LET k == CHOOSE x \in keys : TRUE
           v == NodeAt(st.rs[r].paved, path).m[k]
           pm == refTarget(v.s)
           st2 == resolveReferencesOfPaved(st, pm)
           got == GetString(st2.rs[pm].paved, pathStr(v.s))
           st1 == CASE v.kind = "map" ->
                         resolveReferences(st, r, Append(path, [k |-> k, i |-> 0]),
                                           rangeKeys(v.m))
                    [] v.kind = "slice" -> resolveReferencesElems(st, r, path, k, 1)
                    [] v.kind = "string" ->
                         IF st2.err \/ IsNotFound(got.err) THEN st2
                         ELSE IF got.err # "nil" THEN [st2 EXCEPT !.err = TRUE]
                         ELSE [st2 EXCEPT !.rs[r].paved =
                                 AssignAt(@, path, k, StringNode(got.s))]
       IN resolveReferences(st1, r, path, keys \ {k})

resolveReferencesElems(st, r, path, k, i) ==
  LET e == NodeAt(st.rs[r].paved, path).m[k].e
  IN IF i > Len(e) \/ st.err THEN st
     ELSE IF e[i].kind # "map" THEN resolveReferencesElems(st, r, path, k, i + 1)
     ELSE resolveReferencesElems(
            resolveReferences(st, r, Append(path, [k |-> k, i |-> i]), rangeKeys(e[i].m)),
            r, path, k, i + 1)

RECURSIVE StoreExamplesIn(_, _)
StoreExamplesIn(st, order) ==
  IF order = <<>> \/ st.err THEN st
  ELSE LET st1 == resolveReferencesOfPaved(st, Head(order))
       IN IF st1.err THEN st1
          ELSE StoreExamplesIn([st1 EXCEPT !.rs[Head(order)].paved = deleteDependsOn(@)],
                               Tail(order))

\* What a StoreExamples call that visits the registered resources in the
\* given order makes of them: whether it returns an error and, if not,
\* the final trees.
outcome(order) ==
  LET st == StoreExamplesIn(
              [rs |-> [r \in DOMAIN registered |->
                         [paved |-> registered[r], refsResolved |-> FALSE]],
               err |-> FALSE], order)
  IN [err |-> st.err,
      paved |-> IF st.err THEN <<>> ELSE [r \in DOMAIN registered |-> st.rs[r].paved]]

\* ------------------------------------------------------------ claims
\* C1 as stated: for every set of registered documents, any two orders in
\* which StoreExamples may visit them (and on which it returns nil) leave
\* the same final tree in every document.
C1_AnyOrderSameTrees ==
  (pc = "idle" /\ calls = 0) =>
    \A o1, o2 \in Orders(DOMAIN registered) :
      (~outcome(o1).err /\ ~outcome(o2).err) => outcome(o1).paved = outcome(o2).paved

\* C1 amended: when no resource refers to itself directly or through
\* others, no placeholder addresses depends_on, and no lookup fails, the
\* final tree of every resource is the same for every visiting order.
C1_OrderIndependentAcyclic ==
  (Stored /\ Acyclic /\ NoDependsOnRef)
    => \A r \in DOMAIN resources : resources[r].paved = expected(r)

\* A chain a -> b -> c was resolved by a call that visited all three.
C1_Witness ==
  /\ Stored /\ Acyclic /\ NoDependsOnRef
  /\ DOMAIN resources = ResourceNames
  /\ "b" \in refsOf("a") /\ "c" \in refsOf("b")
  /\ resources["a"].paved # registered["a"]

\* The reference a string of the registered tree of r makes, as C2 reads
\* it: the whole string is ${B.<name>.<path>}, B is registered, and B's
\* registered tree holds a string at spec.forProvider.<path>.
refersToString(r, sl) ==
  LET t == valueAt(registered[r], sl).s
  IN /\ wholePlaceholder(t)
     /\ refTarget(t) # ""
     /\ GetString(registered[refTarget(t)], pathStr(t)).err = "nil"

\* C2 as stated: after a successful StoreExamples, every field that held
\* ${B.<name>.<path>} equals what B's final tree holds at
\* spec.forProvider.<path>, and is no ${...} string any more.
C2_SubstitutedAndNoPlaceholder ==
  Stored =>
    \A r \in DOMAIN registered : \A sl \in slots(registered[r], <<>>) :
      (refersToString(r, sl) /\ present(resources[r].paved, sl)) =>
        LET t == valueAt(registered[r], sl).s
            fin == GetString(resources[refTarget(t)].paved, pathStr(t))
            now == valueAt(resources[r].paved, sl).s
        IN fin.err = "nil" /\ now = fin.s /\ ~hasPlaceholder(now)

\* C2 amended: when no resource refers to itself directly or through
\* others and no placeholder addresses depends_on, after a successful
\* StoreExamples every field that held ${B.<name>.<path>} (and was not
\* deleted as depends_on) equals what B's final tree holds at
\* spec.forProvider.<path>; it is a ${...} string only if that value is.
C2_SubstitutedAcyclic ==
  (Stored /\ Acyclic /\ NoDependsOnRef) =>
    \A r \in DOMAIN registered : \A sl \in slots(registered[r], <<>>) :
      (refersToString(r, sl) /\ present(resources[r].paved, sl)) =>
        LET t == valueAt(registered[r], sl).s
            fin == GetString(resources[refTarget(t)].paved, pathStr(t))
            now == valueAt(resources[r].paved, sl).s
        IN fin.err = "nil" /\ now = fin.s

\* a's field f held ${b.n.f}, b's held ${c.n.f}, and a's now holds c's "v".
C2_Witness ==
  /\ Stored /\ Acyclic /\ NoDependsOnRef
  /\ DOMAIN resources = ResourceNames
  /\ \E sl \in slots(registered["a"], <<>>) :
       /\ refersToString("a", sl)
       /\ valueAt(registered["a"], sl).s = Ref("b", <<"f">>)
       /\ valueAt(registered["b"], sl).s = Ref("c", <<"f">>)
       /\ valueAt(resources["a"].paved, sl).s = <<"v">>

\* A string that refers to a string field found in a registered resource.
resolvable(t) ==
  refTarget(t) # "" /\ GetString(resources[refTarget(t)].paved, pathStr(t)).err # "notFound"

\* C3 as stated: in every reachable state a resource marked refsResolved
\* holds no placeholder string except ones whose field is not found.
C3_ResolvedHoldsNoPlaceholder ==
  \A r \in DOMAIN resources :
    resources[r].refsResolved =>
      \A sl \in strings(resources[r].paved, <<>>) :
        ~resolvable(valueAt(resources[r].paved, sl).s)

\* C3 amended: once a StoreExamples call has returned nil and none has
\* failed, and no resource refers to itself directly or through others,
\* no resource holds, as the value of a mapping key the resolver
\* inspects, a placeholder whose field is found in a registered resource.
C3_StoredHoldsNoPlaceholder ==
  (history # <<>> /\ NeverFailed /\ Acyclic) =>
    \A r \in DOMAIN resources :
      \A sl \in slots(resources[r].paved, <<>>) :
        ~resolvable(valueAt(resources[r].paved, sl).s)

\* a referred to b twice, under a map and inside a slice, and holds no
\* reference any more.
C3_Witness ==
  /\ Stored /\ Acyclic
  /\ \E p, q \in slots(registered["a"], <<>>) :
       /\ p # q /\ Len(p.path) = 3 /\ Len(q.path) = 3 /\ p.path[3].i # q.path[3].i
       /\ refTarget(valueAt(registered["a"], p).s) = "b"
       /\ refTarget(valueAt(registered["a"], q).s) = "b"
       /\ ~hasPlaceholder(valueAt(resources["a"].paved, p).s)
       /\ ~hasPlaceholder(valueAt(resources["a"].paved, q).s)

\* C4 as stated: a second StoreExamples call leaves every tree and every
\* written file as the first left them and returns what the first did.
C4_SecondCallSame ==
  \A x \in 1..(Len(history) - 1) : history[x + 1] = history[x]

\* C5: across all StoreExamples calls and however many placeholders name
\* it, resolveReferences is started on the tree of a resource at most once.
C5_WalkedAtMostOnce ==
  \A r \in DOMAIN walks : walks[r] <= 1

\* b was named by two placeholders of a, two StoreExamples calls have
\* returned, and b's tree was walked once.
C5_Witness ==
  /\ Len(history) = 2 /\ pc = "idle"
  /\ Cardinality({sl \in slots(registered["a"], <<>>) :
                    refTarget(valueAt(registered["a"], sl).s) = "b"}) = 2
  /\ walks["b"] = 1 /\ walks["a"] = 1

\* C6: every StoreExamples call returns, also when a resource refers to
\* itself or resources refer to each other in a cycle.
C6_StoreExamplesReturns ==
  (pc \in {"range", "resolve"}) ~> (pc = "idle")

\* A call returned on a set in which a, b and c refer to each other in a
\* cycle, and one on a set in which a refers to itself.
C6_Witness ==
  /\ pc = "idle" /\ result # "none"
  /\ \/ {"b"} = refsOf("a") /\ {"c"} = refsOf("b") /\ {"a"} = refsOf("c")
     \/ "a" \in refsOf("a")

\* C7: once a lookup has failed, every live call returns the error at
\* once and StoreExamples returns it; from the failure on nothing is
\* written and no tree changes in that call, so the files written before
\* stay as they are and the placeholder that failed stays as registered.
C7_FailFast ==
  [][/\ (ret = "err" =>
           /\ files' = files /\ resources' = resources
           /\ IF stack # <<>>
                THEN ret' = "err" /\ Len(stack') = Len(stack) - 1
                ELSE result' = "err" /\ pc' = "idle")
     /\ (ret # "err" /\ ret' = "err" => files' = files /\ resources' = resources)
     /\ \A f \in failedAt' :
          valueAt(resources'[f.res].paved, f) = valueAt(registered[f.res], f)]_vars

\* A call returned an error after it had written a resource.
C7_Witness ==
  /\ pc = "idle" /\ result = "err"
  /\ wrote # {} /\ DOMAIN files # {}
  /\ failedAt # {}

\* C8 as stated: no resource whose resolution a lookup failure cut short
\* is written by a StoreExamples call that returns nil.
C8_NoCutResourceWritten ==
  (pc = "idle" /\ result = "ok") => wrote \cap cut = {}

\* A string the resolver cannot resolve: reRef matches, the capture has at
\* least three segments, and segment 0 is no registered resource or the
\* field is not found in the registered tree of that resource.
unresolvable(t) ==
  LET g == reRefFindStringSubmatch(t)
  IN /\ Len(g) = 2
     /\ Len(Split(g[2], ".")) >= 3
     /\ \/ refTarget(t) = ""
        \/ GetString(registered[refTarget(t)], pathStr(t)).err = "notFound"

\* C9 as stated: an unresolvable placeholder is still in the final tree,
\* unchanged.
C9_UnresolvableStays ==
  Stored =>
    \A r \in DOMAIN registered : \A sl \in strings(registered[r], <<>>) :
      unresolvable(valueAt(registered[r], sl).s) =>
        /\ present(resources[r].paved, sl)
        /\ valueAt(resources[r].paved, sl) = valueAt(registered[r], sl)

\* C9 amended: in every state, an unresolvable placeholder that is not
\* under the depends_on key of spec.forProvider (which StoreExamples
\* deletes) is the string it was registered as, and no lookup of an
\* unresolvable placeholder has returned an error.
C9_UnresolvableInert ==
  \A r \in DOMAIN registered : \A sl \in strings(registered[r], <<>>) :
    unresolvable(valueAt(registered[r], sl).s) =>
      /\ ~underDependsOn(sl) =>
           valueAt(resources[r].paved, sl) = valueAt(registered[r], sl)
      /\ [res |-> r, path |-> sl.path, k |-> sl.k, i |-> sl.i] \notin failedAt

\* StoreExamples returned nil on a set in which a names a field b lacks.
C9_Witness ==
  /\ Stored
  /\ "b" \in DOMAIN registered
  /\ \E sl \in slots(registered["a"], <<>>) :
       /\ refTarget(valueAt(registered["a"], sl).s) = "b"
       /\ unresolvable(valueAt(registered["a"], sl).s)
       /\ valueAt(resources["a"].paved, sl) = valueAt(registered["a"], sl)

\* C10 as stated: a string that is not ${<inner>} from end to end is no
\* placeholder and resolution leaves it as it is.
C10_OnlyWholeStrings ==
  \A r \in DOMAIN registered : \A sl \in strings(registered[r], <<>>) :
    (~wholePlaceholder(valueAt(registered[r], sl).s) /\ ~underDependsOn(sl)) =>
      valueAt(resources[r].paved, sl) = valueAt(registered[r], sl)

\* ------------------------------------------------------------ C11
\* spec.forProvider of a tree.
forProvider(u) == u.m["spec"].m["forProvider"].m

\* C11: every Generate call of Run (with the omission and transformation
\* of its resource) is over before the resolution of any document starts:
\* while a resource is still to be generated no StoreExamples call has been
\* made, no resolveReferences call is live and every registered tree is as
\* Generate left it, unmarked.  Within transformFields the omission pass is
\* over before the rule pass: a field both omitted and named by a rule of
\* its resource is in no registered tree, under its name or the rule's.
C11_TransformBeforeResolve ==
  /\ (calls > 0 \/ pc \in {"range", "resolve"} \/ stack # <<>>) => pending = {}
  /\ pending # {} =>
       \A r \in DOMAIN resources :
         /\ ~resources[r].refsResolved
         /\ resources[r].paved = registered[r]
  /\ \A r \in DOMAIN registered : \A rule \in fieldTransformations(r) :
       (\E i \in DOMAIN OmittedFields(r) : OmittedFields(r)[i] = rule.hn) =>
         /\ rule.hn[1] \notin DOMAIN forProvider(registered[r])
         /\ rule.TransformedName \notin DOMAIN forProvider(registered[r])

\* A resolveReferences call is live on the tree Generate made of a's
\* example {f: ${b.n.f}, o: x}, whose field o is omitted and named by a rule.
C11_Witness ==
  /\ stack # <<>>
  /\ pending = {}
  /\ "a" \in DOMAIN registered
  /\ forProvider(registered["a"]) = ("f" :> StringNode(Ref("b", <<"f">>)))
  /\ \E rule \in fieldTransformations("a") : OmittedFields("a")[1] = rule.hn

\* ------------------------------------------------------------ C12
\* The path hn is an entry of the omission list.
omits(omittedFields, hn) == \E i \in DOMAIN omittedFields : omittedFields[i] = hn

\* The key under which the field name of the map at prefix is found after
\* transformFields, when that is certain: its own name when no rule has
\* its path, the target name of its rule (not IsRef) otherwise, provided
\* no other rule has that target name, the map had no such key and no rule
\* has the path of that target name at prefix.  "" when it is not certain.
imageKey(in, t, prefix, name) ==
  LET hn == getHierarchicalName(prefix, name)
      own == {rule \in t : rule.hn = hn}
      image == IF own = {} THEN name ELSE (CHOOSE rule \in own : TRUE).TransformedName
  IN IF /\ \A rule \in own : ~rule.IsRef
        /\ \A rule \in t \ own : rule.TransformedName # image
        /\ own # {} => /\ image \notin DOMAIN in
                       /\ \A rule \in t : rule.hn # getHierarchicalName(prefix, image)
       THEN image ELSE ""

\* For every field of the map `in` at prefix, and below it, that is both
\* omitted and the source of a rule: `out`, what transformFields made of
\* the map, holds no entry under the field's name (unless another rule has
\* that name as its target) and none under the rule's target name (unless
\* the map had that key or another rule has that target, or makes a new
\* field of the omitted field's name, which the rule then renames).
RECURSIVE omittedGone(_, _, _, _, _)
omittedGone(in, out, omittedFields, t, prefix) ==
  \A name \in DOMAIN in :
    LET hn == getHierarchicalName(prefix, name)
        k == imageKey(in, t, prefix, name)
        below(v, w) == v.kind = "map" /\ w.kind = "map"
                         => omittedGone(v.m, w.m, omittedFields, t, hn)
    IN IF omits(omittedFields, hn)
         THEN \A rule \in t : rule.hn = hn =>
                /\ name \in DOMAIN out =>
                     \E other \in t \ {rule} : other.TransformedName = name
                /\ rule.TransformedName \in DOMAIN out =>
                     \/ rule.TransformedName \in DOMAIN in
                     \/ \E other \in t \ {rule} :
                          other.TransformedName \in {rule.TransformedName, name}
         ELSE /\ k # ""
              /\ k \in DOMAIN out
              /\ out[k].kind = in[name].kind
              => /\ below(in[name], out[k])
                 /\ in[name].kind = "slice" /\ Len(in[name].e) = Len(out[k].e) =>
                      \A i \in 1..Len(in[name].e) : below(in[name].e[i], out[k].e[i])

\* C12: for every tree, omission list and rule set, a field whose path is
\* both omitted and the source path of a rule is removed by
\* transformFields, and no entry under the rule's target name is made of it.
C12_OmittedNotTransformed ==
  invoked.fn = "transformFields" =>
    omittedGone(invoked.params, returned.params, invoked.omittedFields, invoked.t, <<>>)

\* transformFields has returned from {a: z, p: {c: x, d: y}} with p.c both
\* omitted and the source of the rule p.c -> e, next to the rule p -> q.
C12_Witness ==
  /\ invoked.fn = "transformFields"
  /\ invoked.params = ("a" :> StringNode(<<"z">>))
       @@ ("p" :> MapNode(("c" :> StringNode(<<"x">>)) @@ ("d" :> StringNode(<<"y">>))))
  /\ invoked.omittedFields = << <<"p", ".", "c">> >>
  /\ invoked.t = {Rule(<<"p", ".", "c">>, "e", FALSE, FALSE), Rule(<<"p">>, "q", FALSE, FALSE)}
  /\ returned.params = ("a" :> StringNode(<<"z">>))
       @@ ("q" :> MapNode("d" :> StringNode(<<"y">>)))

\* ------------------------------------------------------------ C13
\* The rules of t that are applied to a field at the top of `in` and whose
\* result no other rule touches: the field is not omitted, no other rule
\* has the rule's target name or the field's name as its target, and no
\* rule has the target name as its path.
appliedAlone(in, omittedFields, t) ==
  {rule \in t :
     /\ Len(rule.hn) = 1
     /\ rule.hn[1] \in DOMAIN in
     /\ ~omits(omittedFields, rule.hn)
     /\ \A other \in t \ {rule} :
          other.TransformedName \notin {rule.TransformedName, rule.hn[1]}
     /\ \A other \in t : other.hn # <<rule.TransformedName>>}

\* The reference object of a rule for the value v.
referenceObject(rule, v) ==
  IF rule.IsSensitive
    THEN MapNode(("name" :> StringNode(getSecretRef(v)[1]))
                   @@ ("namespace" :> StringNode(<<"crossplane", "-", "system">>))
                   @@ ("key" :> StringNode(getSecretRef(v)[2])))
    ELSE MapNode("name" :> StringNode(<<"example">>))

\* C13: the value a rule with IsRef inserts under its target name is a
\* one-element sequence holding the reference object when the field held a
\* sequence and the bare reference object for every other value, for
\* non-sensitive and for sensitive rules; a rule without IsRef inserts the
\* value of the field as it is (a map or sequence as the pass over the
\* children left it).
C13_ReferenceShape ==
  invoked.fn = "transformFields" =>
    \A rule \in appliedAlone(invoked.params, invoked.omittedFields, invoked.t) :
      LET v == invoked.params[rule.hn[1]]
          got == returned.params[rule.TransformedName]
      IN /\ rule.TransformedName \in DOMAIN returned.params
         /\ rule.IsRef /\ v.kind = "slice" => got = SliceNode(<<referenceObject(rule, v)>>)
         /\ rule.IsRef /\ v.kind # "slice" => got = referenceObject(rule, v)
         /\ ~rule.IsRef /\ v.kind \notin {"map", "slice"} => got = v
         /\ ~rule.IsRef /\ v.kind \in {"map", "slice"} =>
              got \in {w[rule.hn[1]] :
                         w \in transformFields((rule.hn[1] :> v), invoked.omittedFields,
                                               invoked.t \ {rule}, <<>>)}

\* transformFields has applied the sensitive rule a -> aSecretRef to a
\* field a that held a sequence.
C13_Witness ==
  /\ invoked.fn = "transformFields"
  /\ \E rule \in appliedAlone(invoked.params, invoked.omittedFields, invoked.t) :
       /\ rule.IsRef /\ rule.IsSensitive
       /\ invoked.params[rule.hn[1]].kind = "slice"
       /\ returned.params[rule.TransformedName].kind = "slice"

\* ------------------------------------------------------------ C14
\* What follows "${" and precedes "}" in a string that is a placeholder.
inner(s) == SubSeq(s, 3, Len(s) - 1)

\* The inner text is file("<path>") and nothing else.
fileForm(x) ==
  /\ Len(x) >= 6
  /\ SubSeq(x, 1, 3) = <<"file", "(", Quote>>
  /\ SubSeq(x, Len(x) - 1, Len(x)) = <<Quote, ")">>

\* The secret coordinates of a value as the derivation rule gives them.
secretCoordinate(v) ==
  LET default == [secretName |-> <<"example", "-", "secret">>,
                  secretKey |-> <<"example", "-", "key">>]
      x == inner(v.s)
      segments == Split(x, ".")
      path == SubSeq(x, 4, Len(x) - 2)
      basename == Split(path, "/")[Len(Split(path, "/"))]
  IN IF v.kind # "string" THEN default
     ELSE IF ~wholePlaceholder(v.s) THEN default
     ELSE IF fileForm(x)
       THEN [default EXCEPT !.secretKey = <<"attribute", ".">> \o basename]
     ELSE IF Len(segments) < 3 THEN default
     ELSE [secretName |-> <<"example", "-">> \o Join(Tail(Split(segments[1], "_")), "-"),
           secretKey |-> <<"attribute", ".">>
                           \o Join(SubSeq(segments, 3, Len(segments)), ".")]

\* C14: getSecretRef returns ("example-secret", "example-key") for a value
\* that is not a string, not a ${...} placeholder, or a non-file
\* placeholder of fewer than 3 segments; the default name and key
\* "attribute." + basename for ${file("<path>")}; otherwise name "example-"
\* + the tokens of segment 0 after the first, joined by "-", and key
\* "attribute." + segments 2.. joined by ".".
C14_SecretCoordinates ==
  invoked.fn = "getSecretRef" =>
    /\ returned.secretName = secretCoordinate(invoked.v).secretName
    /\ returned.secretKey = secretCoordinate(invoked.v).secretKey

\* ------------------------------------------------------------ C15
\* C15: no written manifest has a depends_on key directly under
\* spec.forProvider, and a step removes that key from the tree of a
\* document only as StoreExamples' loop writes the document, after the
\* resolveReferencesOfPaved call of that iteration has returned nil: the
\* document is marked, no resolveReferences call is live, the last return
\* was not an error, and the manifest written is the tree without the key.
C15_DependsOnStripped ==
  [][/\ \A f \in DOMAIN files' : "depends_on" \notin DOMAIN forProvider(files'[f])
     /\ \A r \in DOMAIN resources :
          /\ "depends_on" \in DOMAIN forProvider(resources[r].paved)
          /\ "depends_on" \notin DOMAIN forProvider(resources'[r].paved)
          => /\ pc \in {"range", "resolve"}
             /\ n' = r
             /\ resources[r].refsResolved
             /\ stack = <<>>
             /\ pc = "resolve" => ret = "nil"
             /\ r \in wrote' \ wrote
             /\ files'[resources[r].manifestPath] = resources'[r].paved]_vars

\* b was registered with a depends_on key and its manifest is written.
C15_Witness ==
  /\ "b" \in DOMAIN registered
  /\ "depends_on" \in DOMAIN forProvider(registered["b"])
  /\ "b" \in wrote
  /\ resources["b"].manifestPath \in DOMAIN files
  /\ "depends_on" \notin DOMAIN forProvider(resources["b"].paved)

\* ------------------------------------------------------------ C16
\* The position is a field of a map that is an element of a slice.
inMapElement(sl) == sl.i = 0 /\ sl.path # <<>> /\ sl.path[Len(sl.path)].i # 0

\* C16: a string that is itself an element of a sequence is never changed
\* by resolution, whatever it holds; a field of a mapping element of a
\* sequence that refers to a plain string of a registered document holds
\* that string once StoreExamples has returned nil.
C16_SliceStringsUntouched ==
  \A r \in DOMAIN registered :
    /\ \A sl \in strings(registered[r], <<>>) :
         (sl.i # 0 /\ present(resources[r].paved, sl)) =>
           valueAt(resources[r].paved, sl) = valueAt(registered[r], sl)
    /\ Stored =>
         \A sl \in slots(registered[r], <<>>) :
           (inMapElement(sl) /\ refersToString(r, sl)) =>
             LET t == valueAt(registered[r], sl).s
                 v == GetString(registered[refTarget(t)], pathStr(t)).s
             IN ~hasPlaceholder(v) => valueAt(resources[r].paved, sl).s = v

\* StoreExamples has returned nil on a = {m: {g: ${b.n.f}}, l: [{g:
\* ${b.n.f}}, ${b.n.f}]} and b = {f: v}: the string element of l is as it
\* was and the field g of the mapping element holds v.
C16_Witness ==
  /\ Stored
  /\ {"a", "b"} \subseteq DOMAIN registered
  /\ forProvider(registered["b"]) = ("f" :> StringNode(<<"v">>))
  /\ "l" \in DOMAIN forProvider(registered["a"])
  /\ forProvider(resources["a"].paved)["l"] =
       SliceNode(<<MapNode("g" :> StringNode(<<"v">>)), StringNode(Ref("b", <<"f">>))>>)

\* ------------------------------------------------------------ C17
\* What the entries with path p.c make of a map that is the field p or an
\* element of the sequence p: an omission entry deletes c; otherwise a
\* rule moves c (or the reference object made for it) to its target name.
belowP(child, omittedFields, t) ==
  LET rules == {rule \in t : rule.hn = <<"p", ".", "c">>}
      rule == CHOOSE x \in rules : TRUE
  IN IF "c" \notin DOMAIN child THEN child
     ELSE IF omits(omittedFields, <<"p", ".", "c">>) THEN Delete(child, "c")
     ELSE IF rules = {} THEN child
     ELSE Put(Delete(child, "c"), rule.TransformedName,
              IF rule.IsRef THEN referenceObject(rule, child["c"]) ELSE child["c"])

\* C17: an omission entry or rule with path p.c applies to child c of the
\* field p under p's original name, also when a rule renames p, and to c
\* in every mapping element when p is a sequence (whose other elements
\* stay); an entry with path q.c, q being the new name of p, changes
\* nothing.
C17_NestedPathsOriginalNames ==
  (/\ invoked.fn = "transformFields"
   /\ "p" \in DOMAIN invoked.params
   /\ ~omits(invoked.omittedFields, <<"p">>)) =>
    LET in == invoked.params["p"]
        key == imageKey(invoked.params, invoked.t, <<>>, "p")
        out == returned.params[key]
        made(v) == IF v.kind = "map"
                     THEN MapNode(belowP(v.m, invoked.omittedFields, invoked.t))
                     ELSE v
    IN /\ key # "" =>
            /\ key \in DOMAIN returned.params
            /\ in.kind = "map" => out = made(in)
            /\ in.kind = "slice" => out = SliceNode([i \in 1..Len(in.e) |-> made(in.e[i])])
       /\ "q" \notin DOMAIN invoked.params =>
            returned.params \in
              transformFields(invoked.params,
                              SelectSeq(invoked.omittedFields,
                                        LAMBDA hn : hn # <<"q", ".", "c">>),
                              {rule \in invoked.t : rule.hn # <<"q", ".", "c">>}, <<>>)

\* transformFields has returned from {b: 5, p: [{c: x, d: y}, {c: w}, e]}
\* with the rules p -> q and p.c -> e.
C17_Witness ==
  /\ invoked.fn = "transformFields"
  /\ "p" \in DOMAIN invoked.params
  /\ invoked.params["p"].kind = "slice"
  /\ invoked.omittedFields = <<>>
  /\ invoked.t = {Rule(<<"p">>, "q", FALSE, FALSE), Rule(<<"p", ".", "c">>, "e", FALSE, FALSE)}
  /\ returned.params["q"] =
       SliceNode(<<MapNode(("e" :> StringNode(<<"x">>)) @@ ("d" :> StringNode(<<"y">>))),
                   MapNode("e" :> StringNode(<<"w">>)),
                   StringNode(<<"e">>)>>)

\* ------------------------------------------------------------ C18
\* The rules of t whose path names a key of the map node at prefix.
matching(node, t, prefix) ==
  {rule \in t : \E name \in DOMAIN node : rule.hn = getHierarchicalName(prefix, name)}

\* No rule's target name is a key of the node, the target name of another
\* matching rule, or the last segment of another rule's path at the node.
noClash(node, t, prefix) ==
  \A rule \in t :
    /\ rule.TransformedName \notin DOMAIN node
    /\ \A other \in matching(node, t, prefix) \ {rule} :
         other.TransformedName # rule.TransformedName
    /\ \A other \in t \ {rule} :
         other.hn # getHierarchicalName(prefix, rule.TransformedName)

\* The top map of a call as the rule loop finds it: the omitted keys
\* deleted and the children transformed (rules with a dotted path apply
\* to children only).
beforeRules(in, omittedFields, t) ==
  transformFields(in, omittedFields, {rule \in t : Len(rule.hn) > 1}, <<>>)

\* C18: on a map node where no rule's target name is a key of the node,
\* the target of another matching rule or the leaf of another rule's path,
\* the rule pass gives the same map for every order of the rules, and it
\* is the map transformFields returns.
C18_RuleOrderIrrelevant ==
  invoked.fn = "transformFields" =>
    LET nodes == beforeRules(invoked.params, invoked.omittedFields, invoked.t)
    IN (\A node \in nodes : noClash(node, invoked.t, <<>>)) =>
         /\ \A node \in nodes : \A o1, o2 \in Orders(invoked.t) :
              applyTransformations(node, o1, <<>>) = applyTransformations(node, o2, <<>>)
         /\ \A o \in Orders(invoked.t) : \E node \in nodes :
              returned.params = applyTransformations(node, o, <<>>)

\* transformFields has returned from {a: x, b: y} with the rules
\* a -> aRef and b -> bSecretRef, both matching, neither clashing.
C18_Witness ==
  /\ invoked.fn = "transformFields"
  /\ invoked.params = ("a" :> StringNode(<<"x">>)) @@ ("b" :> StringNode(<<"y">>))
  /\ invoked.omittedFields = <<>>
  /\ Cardinality(matching(invoked.params, invoked.t, <<>>)) = 2
  /\ noClash(invoked.params, invoked.t, <<>>)
  /\ DOMAIN returned.params = {"aRef", "bSecretRef"}

\* ------------------------------------------------------------ C19
\* A tree with the text of every string that is the value of a map key
\* blanked: the keys of every map, the elements of every sequence in their
\* order and every other value are kept.
RECURSIVE skeleton(_)
skeleton(node) ==
  CASE node.kind = "map" ->
         MapNode([k \in DOMAIN node.m |->
                    IF node.m[k].kind = "string" THEN StringNode(<<>>)
                    ELSE skeleton(node.m[k])])
    [] node.kind = "slice" ->
         SliceNode([i \in 1..Len(node.e) |->
                      IF node.e[i].kind = "map" THEN skeleton(node.e[i]) ELSE node.e[i]])
    [] OTHER -> node

\* C19: a step taken while a resolveReferences call is live changes
\* nothing but the text of strings that are values of map keys (the keys
\* of every map, the length and order of every sequence and every other
\* value stay), and only in documents a live call is walking: the document
\* StoreExamples is resolving and those resolved recursively from it.
C19_ResolutionFrame ==
  [][stack # <<>> =>
       /\ DOMAIN resources' = DOMAIN resources
       /\ \A r \in DOMAIN resources :
            /\ skeleton(resources'[r].paved) = skeleton(resources[r].paved)
            /\ resources'[r].paved # resources[r].paved =>
                 /\ \E x \in 1..Len(stack) : stack[x].res = r
                 /\ r = n \/ r \in reachable(n)]_vars

\* A resolveReferences call is live on a = {m: {g: ..}, l: [{g: ..}, ..]}
\* and has replaced a string of it.
C19_Witness ==
  /\ stack # <<>>
  /\ "a" \in DOMAIN registered
  /\ "l" \in DOMAIN forProvider(registered["a"])
  /\ resources["a"].paved # registered["a"]
  /\ \E r \in DOMAIN registered \ {"a"} : resources[r].paved # registered[r]
====
